---------------------------- MODULE Spec2Model ----------------------------
(***************************************************************************)
(* Model of ChineseSmartCompletion (src/智能续写引擎.js) and of the shell   *)
(* that drives it (src/交互测试.js).                                        *)
(*                                                                         *)
(* A JavaScript string is a sequence of one-character tokens.  An ASCII    *)
(* character is the token of itself; any other character is the token      *)
(* uXXXX of its code point (u7684 is 的).  A Number is an exact rational   *)
(* [k, n, d], or the symbolic irrational root of one.                      *)
(***************************************************************************)
EXTENDS Integers, Sequences, FiniteSets, TLC

VARIABLES
    cache,      \* this.cache: normalized input -> Result
    now,        \* the wall clock read by new Date(), in minutes
    calls,      \* number of process() calls made so far
    raw,        \* argument of the last process() call
    clean,      \* cleanInput of the last call
    ret,        \* value the last call returned (Null for null)
    hit,        \* the last call returned from the cache
    invoked,    \* candidates whose handler the last call invoked, in order
    threw,      \* candidates whose handler threw during the last call
    escaped,    \* a fault left the last call
    calledAt,   \* the clock when the last call was made
    history,    \* every (input, Result) a handler produced and process stored
    printed     \* what processUserInput printed for the last call

vars == <<cache, now, calls, raw, clean, ret, hit, invoked, threw, escaped,
          calledAt, history, printed>>

-----------------------------------------------------------------------------
(* Bounds of the model *)

\* numeric literals 0 .. MaxNum are written out in the generated queries
MaxNum == 4
\* raw strings over RawAlphabet of up to this length are fed to the normalizer
MaxRawLen == 3
\* process() calls in one session
MaxCalls == 3
\* minutes the clock may advance in one session
MaxClock == 2

-----------------------------------------------------------------------------
(* Characters *)

Digits == {"0", "1", "2", "3", "4", "5", "6", "7", "8", "9"}

DigitVal(c) ==
    CASE c = "0" -> 0 [] c = "1" -> 1 [] c = "2" -> 2 [] c = "3" -> 3
      [] c = "4" -> 4 [] c = "5" -> 5 [] c = "6" -> 6 [] c = "7" -> 7
      [] c = "8" -> 8 [] c = "9" -> 9

DigitChar(n) ==
    CASE n = 0 -> "0" [] n = 1 -> "1" [] n = 2 -> "2" [] n = 3 -> "3"
      [] n = 4 -> "4" [] n = 5 -> "5" [] n = 6 -> "6" [] n = 7 -> "7"
      [] n = 8 -> "8" [] n = 9 -> "9"

\* \s : the whitespace characters of the model (space, tab)
Whitespace == {" ", "\t"}

\* [，。！？；：]
Punctuation == {"uff0c", "u3002", "uff01", "uff1f", "uff1b", "uff1a"}

\* [A-Za-z]
Latin ==
    {"a", "b", "c", "d", "e", "f", "g", "h", "i", "j", "k", "l", "m", "n",
     "o", "p", "q", "r", "s", "t", "u", "v", "w", "x", "y", "z",
     "A", "B", "C", "D", "E", "F", "G", "H", "I", "J", "K", "L", "M", "N",
     "O", "P", "Q", "R", "S", "T", "U", "V", "W", "X", "Y", "Z"}

Range(s) == {s[i] : i \in 1..Len(s)}

\* [一-龥] : the CJK characters that occur in the model's strings
CJK ==
    UNION {Range(w) : w \in {
        <<"u52a0", "u51cf", "u4e58", "u9664", "u7684", "u5e73", "u65b9", "u6839", "u7acb">>, <<"u5929", "u65e5", "u5468", "u6708", "u5e74", "u540e", "u524d", "u4eca", "u660e", "u6628", "u4e0b", "u4e0a">>, <<"u65f6", "u95f4", "u70b9">>,
        <<"u7ebd", "u7ea6", "u6d1b", "u6749", "u77f6", "u4f26", "u6566", "u5df4", "u9ece", "u4e1c", "u4eac", "u9996", "u5c14", "u65b0", "u52a0", "u5761", "u8fea", "u62dc", "u5317">>, <<"u6444", "u6c0f", "u5ea6", "u534e", "u7b49", "u4e8e", "u8f6c", "u6362", "u4e3a", "u7c73", "u5398", "u5343", "u82f1", "u5c3a", "u5bf8">>,
        <<"u7f8e", "u5143", "u4eba", "u6c11", "u5e01", "u6b27", "u9551", "u7b97", "u6210">>, <<"u725b", "u987f", "u7b2c", "u4e00", "u4e8c", "u4e09", "u5b9a", "u5f8b", "u59c6", "u4e07", "u6709", "u5f15", "u529b", "u52fe", "u80a1", "u7406", "u6b21", "u7a0b", "u5706", "u9762", "u79ef", "u516c", "u5f0f">>,
        <<"u6c34", "u5206", "u5b50", "u6c27", "u5316", "u78b3", "u6c14", "u5b66">> }}

-----------------------------------------------------------------------------
(* String helpers *)

AllIn(s, S) == \A i \in 1..Len(s) : s[i] \in S

Drop(s, n) == SubSeq(s, n + 1, Len(s))

StartsWith(s, p) == Len(p) <= Len(s) /\ SubSeq(s, 1, Len(p)) = p

\* String.prototype.includes
Includes(s, p) == \E i \in 0..(Len(s) - Len(p)) : SubSeq(s, i + 1, i + Len(p)) = p

RECURSIVE ReplaceAll(_, _, _)
\* s.replace(new RegExp(p, 'g'), r) for a literal p
ReplaceAll(s, p, r) ==
    IF Len(s) = 0 THEN <<>>
    ELSE IF StartsWith(s, p) THEN r \o ReplaceAll(Drop(s, Len(p)), p, r)
    ELSE <<s[1]>> \o ReplaceAll(Tail(s), p, r)

-----------------------------------------------------------------------------
(* preprocessInput *)

RECURSIVE TrimLeft(_)
TrimLeft(s) ==
    IF Len(s) > 0 /\ s[1] \in Whitespace THEN TrimLeft(Tail(s)) ELSE s

RECURSIVE TrimRight(_)
TrimRight(s) ==
    IF Len(s) > 0 /\ s[Len(s)] \in Whitespace
    THEN TrimRight(SubSeq(s, 1, Len(s) - 1)) ELSE s

\* String.prototype.trim
Trim(s) == TrimRight(TrimLeft(s))

RECURSIVE CollapseWhitespace(_)
\* .replace(/\s+/g, ' ')
CollapseWhitespace(s) ==
    IF Len(s) = 0 THEN <<>>
    ELSE IF s[1] \in Whitespace
         THEN <<" ">> \o CollapseWhitespace(TrimLeft(s))
         ELSE <<s[1]>> \o CollapseWhitespace(Tail(s))

\* .replace(/[，。！？；：]/g, '')
StripPunctuation(s) == SelectSeq(s, LAMBDA c : c \notin Punctuation)

preprocessInput(input) == StripPunctuation(CollapseWhitespace(Trim(input)))

-----------------------------------------------------------------------------
(* Regular expressions.  A pattern is a sequence of atoms; it matches a    *)
(* string when the string splits into consecutive pieces, one per atom.    *)

Atom(k, alts) == [k |-> k, alts |-> alts]

NUM     == Atom("num", {})      \* (\d+(?:\.\d+)?)
INT     == Atom("int", {})      \* (\d+)
WS      == Atom("ws", {})       \* \s*
CITY    == Atom("city", {})     \* ([一-龥]+|[A-Za-z]+)
CJKRUN  == Atom("cjk", {})      \* ([一-龥]+)
D12     == Atom("d12", {})      \* (\d{1,2})
D2OPT   == Atom("d2opt", {})    \* (\d{2})?
ANY     == Atom("any", {})      \* the unanchored end of a pattern without $
ALT(alts) == Atom("alt", alts)  \* (x|y|z) or a character class
OPT(alts) == Atom("opt", alts)  \* (x|y|z)? or [..]?

IsDigits(s) == Len(s) >= 1 /\ AllIn(s, Digits)

\* \d+(?:\.\d+)?
IsNum(s) ==
    \/ IsDigits(s)
    \/ \E i \in 2..(Len(s) - 1) :
          /\ s[i] = "."
          /\ IsDigits(SubSeq(s, 1, i - 1))
          /\ IsDigits(Drop(s, i))

AtomOK(a, s) ==
    CASE a.k = "num"   -> IsNum(s)
      [] a.k = "int"   -> IsDigits(s)
      [] a.k = "ws"    -> AllIn(s, Whitespace)
      [] a.k = "city"  -> Len(s) >= 1 /\ (AllIn(s, CJK) \/ AllIn(s, Latin))
      [] a.k = "cjk"   -> Len(s) >= 1 /\ AllIn(s, CJK)
      [] a.k = "d12"   -> Len(s) \in 1..2 /\ AllIn(s, Digits)
      [] a.k = "d2opt" -> Len(s) \in {0, 2} /\ AllIn(s, Digits)
      [] a.k = "any"   -> TRUE
      [] a.k = "alt"   -> s \in a.alts
      [] a.k = "opt"   -> s = <<>> \/ s \in a.alts

RECURSIVE MatchesFrom(_, _, _)
\* s splits into pieces matching atoms i, i+1, ... of p
MatchesFrom(p, i, s) ==
    IF i > Len(p) THEN s = <<>>
    ELSE \E e \in 0..Len(s) :
            AtomOK(p[i], SubSeq(s, 1, e)) /\ MatchesFrom(p, i + 1, Drop(s, e))

\* input.match(pattern) is not null
Matches(p, s) == MatchesFrom(p, 1, s)

RECURSIVE SplitsFrom(_, _, _)
\* the ways s splits into pieces matching atoms i, i+1, ...
SplitsFrom(p, i, s) ==
    IF i > Len(p) THEN (IF s = <<>> THEN {<<>>} ELSE {})
    ELSE UNION { { <<SubSeq(s, 1, e)>> \o rest : rest \in SplitsFrom(p, i + 1, Drop(s, e)) }
                 : e \in {x \in 0..Len(s) : AtomOK(p[i], SubSeq(s, 1, x))} }

\* the groups of input.match(pattern): the pieces of the match, one per atom
\* (the patterns whose groups the handlers read split in one way only)
Groups(p, s) == CHOOSE g \in SplitsFrom(p, 1, s) : TRUE

-----------------------------------------------------------------------------
(* Numbers *)

Abs(x) == IF x < 0 THEN -x ELSE x

RECURSIVE GCD(_, _)
GCD(a, b) == IF b = 0 THEN a ELSE GCD(b, a % b)

\* the rational n/d in lowest terms, d > 0
Rat(n, d) ==
    LET g == GCD(Abs(n), Abs(d))
        s == IF d < 0 THEN -1 ELSE 1
    IN  [k |-> "rat", n |-> s * (n \div g), d |-> s * (d \div g)]

Zero == Rat(0, 1)

RECURSIVE Pow10(_)
Pow10(p) == IF p = 0 THEN 1 ELSE 10 * Pow10(p - 1)

RECURSIVE DigitsVal(_)
DigitsVal(s) ==
    IF Len(s) = 0 THEN 0
    ELSE 10 * DigitsVal(SubSeq(s, 1, Len(s) - 1)) + DigitVal(s[Len(s)])

\* parseInt of a string of digits
parseInt(s) == DigitsVal(s)

\* parseFloat of a string matching \d+(?:\.\d+)?
parseFloat(s) ==
    IF IsDigits(s) THEN Rat(DigitsVal(s), 1)
    ELSE LET i == CHOOSE j \in 1..Len(s) : s[j] = "."
             f == Drop(s, i)
         IN  Rat(DigitsVal(SubSeq(s, 1, i - 1)) * Pow10(Len(f)) + DigitsVal(f),
                 Pow10(Len(f)))

Add(a, b) == Rat(a.n * b.d + b.n * a.d, a.d * b.d)
Sub(a, b) == Rat(a.n * b.d - b.n * a.d, a.d * b.d)
Mul(a, b) == Rat(a.n * b.n, a.d * b.d)
Div(a, b) == Rat(a.n * b.d, a.d * b.n)

IsRoot(r, e, x) == IF e = 2 THEN r * r = x ELSE r * r * r = x
HasRoot(e, x) == \E r \in 0..x : IsRoot(r, e, x)
RootOf(e, x) == CHOOSE r \in 0..x : IsRoot(r, e, x)

\* Math.sqrt (e = 2) and Math.cbrt (e = 3) of a non-negative Number: the
\* rational root when there is one, else the irrational root, kept symbolic
Root(e, a) ==
    IF HasRoot(e, a.n) /\ HasRoot(e, a.d)
    THEN Rat(RootOf(e, a.n), RootOf(e, a.d))
    ELSE [k |-> IF e = 2 THEN "sqrt" ELSE "cbrt", n |-> a.n, d |-> a.d]

\* the wall-clock instant t, as the value a piece of output is computed from
Instant(t) == [k |-> "instant", n |-> t, d |-> 1]

-----------------------------------------------------------------------------
(* Display strings.  A display string is a sequence of pieces: literal     *)
(* text, or a value whose digits the model does not compute (a non-integer *)
(* Number, a formatted date or time).                                      *)

Piece(k, s, v, p) == [k |-> k, s |-> s, v |-> v, p |-> p]

Txt(s) == IF s = <<>> THEN <<>> ELSE <<Piece("txt", s, Zero, 0)>>

\* string concatenation
Cat(a, b) ==
    IF a = <<>> THEN b
    ELSE IF b = <<>> THEN a
    ELSE IF a[Len(a)].k = "txt" /\ b[1].k = "txt"
         THEN SubSeq(a, 1, Len(a) - 1)
              \o Txt(a[Len(a)].s \o b[1].s)
              \o Tail(b)
         ELSE a \o b

Cat3(a, b, c) == Cat(Cat(a, b), c)

RECURSIVE NatToStr(_)
NatToStr(n) ==
    IF n < 10 THEN <<DigitChar(n)>>
    ELSE NatToStr(n \div 10) \o <<DigitChar(n % 10)>>

RECURSIVE PadLeft(_, _)
PadLeft(s, w) == IF Len(s) >= w THEN s ELSE PadLeft(<<"0">> \o s, w)

\* String(x) of a Number, as `${x}` makes it: the digits of an integer; a
\* non-integer is the piece num(x), its shortest round-trip digits not computed
NumToStr(x) ==
    IF x.k = "rat" /\ x.d = 1
    THEN Txt((IF x.n < 0 THEN <<"-">> ELSE <<>>) \o NatToStr(Abs(x.n)))
    ELSE <<Piece("num", <<>>, x, -1)>>

\* x.toFixed(p): the sign, and the magnitude rounded half up to p decimals;
\* of an irrational root the piece fixed(x, p)
toFixed(x, p) ==
    IF x.k = "rat"
    THEN LET s == (2 * Abs(x.n) * Pow10(p) + x.d) \div (2 * x.d)
         IN  Txt((IF x.n < 0 THEN <<"-">> ELSE <<>>)
                 \o NatToStr(s \div Pow10(p))
                 \o (IF p = 0 THEN <<>>
                     ELSE <<".">> \o PadLeft(NatToStr(s % Pow10(p)), p)))
    ELSE <<Piece("fixed", <<>>, x, p)>>

-----------------------------------------------------------------------------
(* Results *)

Result(type, display) == [type |-> type, result |-> display]

\* null: what a handler returns for no result, and process for no match
Null == [type |-> "null", result |-> <<>>]

\* the outcome of a handler call that threw
Thrown == [type |-> "throw", result |-> <<>>]

-----------------------------------------------------------------------------
(* initializeData *)

\* this.timezoneMap
timezoneMap ==
    { <<<<"u7ebd", "u7ea6">>, <<"A", "m", "e", "r", "i", "c", "a", "/", "N", "e", "w", "_", "Y", "o", "r", "k">>>>, <<<<"u6d1b", "u6749", "u77f6">>, <<"A", "m", "e", "r", "i", "c", "a", "/", "L", "o", "s", "_", "A", "n", "g", "e", "l", "e", "s">>>>,
      <<<<"u4f26", "u6566">>, <<"E", "u", "r", "o", "p", "e", "/", "L", "o", "n", "d", "o", "n">>>>,    <<<<"u5df4", "u9ece">>, <<"E", "u", "r", "o", "p", "e", "/", "P", "a", "r", "i", "s">>>>,
      <<<<"u4e1c", "u4eac">>, <<"A", "s", "i", "a", "/", "T", "o", "k", "y", "o">>>>,       <<<<"u9996", "u5c14">>, <<"A", "s", "i", "a", "/", "S", "e", "o", "u", "l">>>>,
      <<<<"u65b0", "u52a0", "u5761">>, <<"A", "s", "i", "a", "/", "S", "i", "n", "g", "a", "p", "o", "r", "e">>>>, <<<<"u8fea", "u62dc">>, <<"A", "s", "i", "a", "/", "D", "u", "b", "a", "i">>>> }

\* this.formulaDatabase
formulaDatabase ==
    { <<<<"u725b", "u987f", "u7b2c", "u4e8c", "u5b9a", "u5f8b">>, <<"F", " ", "=", " ", "m", "a">>>>,
      <<<<"u725b", "u987f", "u7b2c", "u4e00", "u5b9a", "u5f8b">>, <<"u7269", "u4f53", "u4fdd", "u6301", "u9759", "u6b62", "u6216", "u5300", "u901f", "u76f4", "u7ebf", "u8fd0", "u52a8", "u72b6", "u6001">>>>,
      <<<<"u725b", "u987f", "u7b2c", "u4e09", "u5b9a", "u5f8b">>, <<"u4f5c", "u7528", "u529b", "u4e0e", "u53cd", "u4f5c", "u7528", "u529b", "u5927", "u5c0f", "u76f8", "u7b49", "uff0c", "u65b9", "u5411", "u76f8", "u53cd">>>>,
      <<<<"u6b27", "u59c6", "u5b9a", "u5f8b">>, <<"V", " ", "=", " ", "I", "R">>>>,
      <<<<"u4e07", "u6709", "u5f15", "u529b", "u5b9a", "u5f8b">>, <<"F", " ", "=", " ", "G", "(", "m", "u2081", "m", "u2082", ")", "/", "r", "u00b2">>>>,
      <<<<"u52fe", "u80a1", "u5b9a", "u7406">>, <<"a", "u00b2", " ", "+", " ", "b", "u00b2", " ", "=", " ", "c", "u00b2">>>>,
      <<<<"u4e8c", "u6b21", "u65b9", "u7a0b">>, <<"x", " ", "=", " ", "(", "-", "b", " ", "u00b1", " ", "u221a", "(", "b", "u00b2", "-", "4", "a", "c", ")", ")", " ", "/", " ", "2", "a">>>>,
      <<<<"u5706", "u7684", "u9762", "u79ef", "u516c", "u5f0f">>, <<"S", " ", "=", " ", "u03c0", "r", "u00b2">>>>,
      <<<<"u6c34", "u7684", "u5206", "u5b50", "u5f0f">>, <<"H", "u2082", "O">>>>,
      <<<<"u4e8c", "u6c27", "u5316", "u78b3">>, <<"C", "O", "u2082">>>>,
      <<<<"u6c27", "u6c14", "u7684", "u5316", "u5b66", "u5f0f">>, <<"O", "u2082">>>> }

\* this.exchangeRates.USD.CNY = 7.1776 and this.exchangeRates.CNY.USD = 0.1393
RateUSDCNY == Rat(71776, 10000)
RateCNYUSD == Rat(1393, 10000)

\* an object literal used as a table: the keys it has
Keys(table) == {e[1] : e \in table}
Lookup(table, key) == (CHOOSE e \in table : e[1] = key)[2]

\* the all-letter property names every object literal inherits from
\* Object.prototype; table[name] is then a function, which is truthy
InheritedNames ==
    { <<"c", "o", "n", "s", "t", "r", "u", "c", "t", "o", "r">>, <<"t", "o", "S", "t", "r", "i", "n", "g">>, <<"v", "a", "l", "u", "e", "O", "f">>, <<"h", "a", "s", "O", "w", "n", "P", "r", "o", "p", "e", "r", "t", "y">>,
      <<"i", "s", "P", "r", "o", "t", "o", "t", "y", "p", "e", "O", "f">>, <<"p", "r", "o", "p", "e", "r", "t", "y", "I", "s", "E", "n", "u", "m", "e", "r", "a", "b", "l", "e">>, <<"t", "o", "L", "o", "c", "a", "l", "e", "S", "t", "r", "i", "n", "g">> }

-----------------------------------------------------------------------------
(* initializeRules: the rules in declared order, each with its patterns in *)
(* declared order.  Every pattern is anchored at both ends.                *)

AmountUnitSuffix(units, suffixes) == <<NUM, WS, ALT(units), WS, OPT(suffixes)>>

TemperatureUnits == {<<"u6444", "u6c0f", "u5ea6">>, <<"u534e", "u6c0f", "u5ea6">>, <<"u2103">>, <<"u2109">>}
LengthUnits == {<<"u7c73">>, <<"u5398", "u7c73">>, <<"u5343", "u7c73">>, <<"u82f1", "u5c3a">>, <<"u82f1", "u5bf8">>, <<"m">>, <<"c", "m">>, <<"k", "m">>, <<"f", "t">>, <<"i", "n">>}
CurrencyNames == {<<"u7f8e", "u5143">>, <<"u4eba", "u6c11", "u5e01">>, <<"u6b27", "u5143">>, <<"u82f1", "u9551">>}
CurrencyCodes == {<<"U", "S", "D">>, <<"C", "N", "Y">>, <<"E", "U", "R">>, <<"G", "B", "P">>}

\* /^(\d+(?:\.\d+)?)\s*[+\-*\/]\s*(\d+(?:\.\d+)?)$/
BasicArithmetic == <<NUM, WS, ALT({<<"+">>, <<"-">>, <<"*">>, <<"/">>}), WS, NUM>>

\* /^(\d+)\s*(天|日|周|月|年)\s*(后|前)$/
RelativeDate == <<INT, WS, ALT({<<"u5929">>, <<"u65e5">>, <<"u5468">>, <<"u6708">>, <<"u5e74">>}), WS, ALT({<<"u540e">>, <<"u524d">>})>>

\* /^([一-龥]+|[A-Za-z]+)\s*时间$/
CityTime == <<CITY, WS, ALT({<<"u65f6", "u95f4">>})>>

\* /^(\d+(?:\.\d+)?)\s*(美元|人民币|欧元|英镑|USD|CNY|EUR|GBP)$/
AmountCurrency == <<NUM, WS, ALT(CurrencyNames \cup CurrencyCodes)>>

rules == <<
    [ category |-> "math",
      patterns |-> <<
        BasicArithmetic,
        <<NUM, WS, ALT({<<"u52a0">>, <<"u51cf">>, <<"u4e58">>, <<"u9664">>}), WS, NUM>>,
        <<NUM, WS, ALT({<<"u7684">>}), WS, ALT({<<"u5e73", "u65b9", "u6839">>, <<"u7acb", "u65b9", "u6839">>})>> >> ],
    [ category |-> "date",
      patterns |-> <<
        RelativeDate,
        <<ALT({<<"u4eca", "u5929">>, <<"u660e", "u5929">>, <<"u540e", "u5929">>, <<"u6628", "u5929">>, <<"u524d", "u5929">>, <<"u4e0b", "u5468">>, <<"u4e0a", "u5468">>})>> >> ],
    [ category |-> "timezone",
      patterns |-> <<
        CityTime,
        <<D12, OPT({<<":">>, <<".">>}), D2OPT, WS, ALT({<<"u70b9">>, <<"u65f6">>}), WS, CJKRUN, WS,
          OPT({<<"u65f6", "u95f4">>})>> >> ],
    [ category |-> "unit",
      patterns |-> <<
        AmountUnitSuffix(TemperatureUnits, {<<"u7b49", "u4e8e">>, <<"u8f6c", "u6362", "u4e3a">>}),
        AmountUnitSuffix(LengthUnits, {<<"u7b49", "u4e8e">>, <<"u8f6c", "u6362", "u4e3a">>}) >> ],
    [ category |-> "currency",
      patterns |-> <<
        AmountCurrency,
        AmountUnitSuffix(CurrencyNames, {<<"u7b49", "u4e8e">>, <<"u6362", "u7b97", "u6210">>}) >> ],
    [ category |-> "formula",
      patterns |-> <<
        <<ALT({<<"u725b", "u987f", "u7b2c", "u4e00", "u5b9a", "u5f8b">>, <<"u725b", "u987f", "u7b2c", "u4e8c", "u5b9a", "u5f8b">>, <<"u725b", "u987f", "u7b2c", "u4e09", "u5b9a", "u5f8b">>, <<"u6b27", "u59c6", "u5b9a", "u5f8b">>, <<"u4e07", "u6709", "u5f15", "u529b", "u5b9a", "u5f8b">>})>>,
        <<ALT({<<"u52fe", "u80a1", "u5b9a", "u7406">>, <<"u4e8c", "u6b21", "u65b9", "u7a0b">>, <<"u5706", "u7684", "u9762", "u79ef", "u516c", "u5f0f">>})>>,
        <<ALT({<<"u6c34", "u7684", "u5206", "u5b50", "u5f0f">>, <<"u4e8c", "u6c27", "u5316", "u78b3">>, <<"u6c27", "u6c14", "u7684", "u5316", "u5b66", "u5f0f">>})>> >> ] >>

-----------------------------------------------------------------------------
(* handleMathCalculation *)

\* the replacements table, applied in its order
ChineseToSymbols(input) ==
    LET e1 == ReplaceAll(input, <<"u52a0">>, <<"+">>)
        e2 == ReplaceAll(e1, <<"u51cf">>, <<"-">>)
        e3 == ReplaceAll(e2, <<"u4e58">>, <<"*">>)
        e4 == ReplaceAll(e3, <<"u9664">>, <<"/">>)
        e5 == ReplaceAll(e4, <<"u7684", "u5e73", "u65b9", "u6839">>, <<"s", "q", "r", "t">>)
    IN  ReplaceAll(e5, <<"u7684", "u7acb", "u65b9", "u6839">>, <<"c", "b", "r", "t">>)

RECURSIVE DigitRun(_)
\* the length of the run of digits s starts with
DigitRun(s) ==
    IF Len(s) > 0 /\ s[1] \in Digits THEN 1 + DigitRun(Tail(s)) ELSE 0

RECURSIVE FirstNumber(_)
\* expression.replace(/.*?(\d+(?:\.\d+)?).*/, '$1'): the first number of the
\* string, or the string itself when it holds no digit
FirstNumber(s) ==
    IF ~\E i \in 1..Len(s) : s[i] \in Digits THEN s
    ELSE IF s[1] \notin Digits THEN FirstNumber(Tail(s))
    ELSE LET n == DigitRun(s)
             f == IF Len(s) > n /\ s[n + 1] = "." THEN DigitRun(Drop(s, n + 1)) ELSE 0
         IN  IF f > 0 THEN SubSeq(s, 1, n + 1 + f) ELSE SubSeq(s, 1, n)

\* mutant of BasicOperation: the divisor is not checked, and a division by
\* zero gives Infinity
BasicOperationUnguarded(operator, a, b) ==
    CASE operator = <<"+">> -> NumToStr(Add(a, b))
      [] operator = <<"-">> -> NumToStr(Sub(a, b))
      [] operator = <<"*">> -> NumToStr(Mul(a, b))
      [] operator = <<"/">> -> IF b # Zero THEN NumToStr(Div(a, b))
                           ELSE NumToStr([k |-> "infinity", n |-> 1, d |-> 0])

\* mutant of BasicOperation: the value is rounded to 2 decimals
BasicOperationRounded(operator, a, b) ==
    CASE operator = <<"+">> -> toFixed(Add(a, b), 2)
      [] operator = <<"-">> -> toFixed(Sub(a, b), 2)
      [] operator = <<"*">> -> toFixed(Mul(a, b), 2)
      [] operator = <<"/">> -> IF b # Zero THEN toFixed(Div(a, b), 2) ELSE Txt(<<"u9664", "u6570", "u4e0d", "u80fd", "u4e3a", "0">>)

\* the switch on the operator; a division by zero gives the notice string
BasicOperation(operator, a, b) ==
    CASE operator = <<"+">> -> NumToStr(Add(a, b))
      [] operator = <<"-">> -> NumToStr(Sub(a, b))
      [] operator = <<"*">> -> NumToStr(Mul(a, b))
      [] operator = <<"/">> -> IF b # Zero THEN NumToStr(Div(a, b)) ELSE Txt(<<"u9664", "u6570", "u4e0d", "u80fd", "u4e3a", "0">>)

\* nothing in the try block throws, so its catch, which returns a Result of
\* type error, is never taken
handleMathCalculation(input) ==
    LET expression == ChineseToSymbols(input)
    IN  IF Includes(expression, <<"s", "q", "r", "t">>)
        THEN Result("calculation",
                    Cat(Txt(<<"=", " ">>), NumToStr(Root(2, parseFloat(FirstNumber(expression))))))
        ELSE IF Includes(expression, <<"c", "b", "r", "t">>)
        THEN Result("calculation",
                    Cat(Txt(<<"=", " ">>), toFixed(Root(3, parseFloat(FirstNumber(expression))), 4)))
        ELSE IF Matches(BasicArithmetic, expression)
        THEN LET g == Groups(BasicArithmetic, expression)
             IN  Result("calculation",
                        Cat(Txt(<<"=", " ">>),
                            BasicOperation(g[3], parseFloat(g[1]), parseFloat(g[5]))))
        ELSE Null

-----------------------------------------------------------------------------
(* handleDateCalculation *)

\* `（${month}月${day}日）` of the Date that setter(getter() + delta) makes of
\* the instant t; the calendar arithmetic of Date is not computed
MonthDay(setter, delta, t) ==
    Cat3(Cat(Txt(<<"uff08">>), <<Piece("month", setter, Instant(t), delta)>>),
         Cat(Txt(<<"u6708">>), <<Piece("day", setter, Instant(t), delta)>>),
         Txt(<<"u65e5", "uff09">>))

\* const specialDates
specialDates ==
    { <<<<"u4eca", "u5929">>, 0>>, <<<<"u660e", "u5929">>, 1>>, <<<<"u540e", "u5929">>, 2>>, <<<<"u6628", "u5929">>, -1>>, <<<<"u524d", "u5929">>, -2>> }

handleDateCalculation(input, t) ==
    IF Matches(RelativeDate, input)
    THEN LET g == Groups(RelativeDate, input)
             num == parseInt(g[1])
             unit == g[3]
             multiplier == IF g[5] = <<"u540e">> THEN 1 ELSE -1
         IN  Result("date",
                CASE unit \in {<<"u5929">>, <<"u65e5">>} -> MonthDay(<<"s", "e", "t", "D", "a", "t", "e">>, num * multiplier, t)
                  [] unit = <<"u5468">> -> MonthDay(<<"s", "e", "t", "D", "a", "t", "e">>, num * 7 * multiplier, t)
                  [] unit = <<"u6708">> -> MonthDay(<<"s", "e", "t", "M", "o", "n", "t", "h">>, num * multiplier, t)
                  [] unit = <<"u5e74">> -> MonthDay(<<"s", "e", "t", "F", "u", "l", "l", "Y", "e", "a", "r">>, num * multiplier, t))
    ELSE IF input \in Keys(specialDates)
    THEN Result("date", MonthDay(<<"s", "e", "t", "D", "a", "t", "e">>, Lookup(specialDates, input), t))
    ELSE Null

-----------------------------------------------------------------------------
(* handleTimezoneQuery *)

\* `（${time}）` with time the hour:minute of the instant t in the zone
TimeIn(zone, t) ==
    Cat3(Txt(<<"uff08">>), <<Piece("time", zone, Instant(t), 0)>>, Txt(<<"uff09">>))

\* this.timezoneMap[city] of a city the map lacks is undefined, or the
\* function inherited under that name, which is no time zone:
\* new Intl.DateTimeFormat then throws a RangeError
handleTimezoneQuery(input, t) ==
    IF Matches(CityTime, input)
    THEN LET city == Groups(CityTime, input)[1]
         IN  IF city \in Keys(timezoneMap)
             THEN Result("timezone", TimeIn(Lookup(timezoneMap, city), t))
             ELSE IF city \in InheritedNames THEN Thrown
             ELSE Null
    ELSE Null

-----------------------------------------------------------------------------
(* handleUnitConversion *)

\* /^(\d+(?:\.\d+)?)\s*(摄氏度|华氏度|℃|℉)/
TemperaturePrefix == <<NUM, WS, ALT(TemperatureUnits), ANY>>

\* /^(\d+(?:\.\d+)?)\s*(米|厘米|千米|英尺|英寸|m|cm|km|ft|in)/
LengthPrefix == <<NUM, WS, ALT(LengthUnits), ANY>>

FeetPerMeter == Rat(328084, 100000)

handleUnitConversion(input) ==
    IF Matches(TemperaturePrefix, input)
    THEN LET g == Groups(TemperaturePrefix, input)
             num == parseFloat(g[1])
         IN  IF g[3] \in {<<"u6444", "u6c0f", "u5ea6">>, <<"u2103">>}
             THEN Result("conversion",
                         Cat(toFixed(Add(Div(Mul(num, Rat(9, 1)), Rat(5, 1)), Rat(32, 1)), 1),
                             Txt(<<"u534e", "u6c0f", "u5ea6">>)))
             ELSE Result("conversion",
                         Cat(toFixed(Div(Mul(Sub(num, Rat(32, 1)), Rat(5, 1)), Rat(9, 1)), 1),
                             Txt(<<"u6444", "u6c0f", "u5ea6">>)))
    ELSE IF Matches(LengthPrefix, input)
    THEN LET g == Groups(LengthPrefix, input)
         IN  IF g[3] \in {<<"u7c73">>, <<"m">>}
             THEN Result("conversion",
                         Cat(toFixed(Mul(parseFloat(g[1]), FeetPerMeter), 2), Txt(<<"u82f1", "u5c3a">>)))
             ELSE Null
    ELSE Null

-----------------------------------------------------------------------------
(* handleCurrencyConversion *)

\* const currencyMap, and currencyMap[currency] || currency
currencyMap ==
    { <<<<"u7f8e", "u5143">>, <<"U", "S", "D">>>>, <<<<"u4eba", "u6c11", "u5e01">>, <<"C", "N", "Y">>>>, <<<<"u6b27", "u5143">>, <<"E", "U", "R">>>>, <<<<"u82f1", "u9551">>, <<"G", "B", "P">>>> }

handleCurrencyConversion(input) ==
    IF Matches(AmountCurrency, input)
    THEN LET g == Groups(AmountCurrency, input)
             num == parseFloat(g[1])
             fromCurrency == IF g[3] \in Keys(currencyMap)
                             THEN Lookup(currencyMap, g[3]) ELSE g[3]
         IN  IF fromCurrency = <<"U", "S", "D">>
             THEN Result("currency",
                         Cat3(Txt(<<"uff08">>), toFixed(Mul(num, RateUSDCNY), 4), Txt(<<" ", "u4eba", "u6c11", "u5e01", "uff09">>)))
             ELSE IF fromCurrency = <<"C", "N", "Y">>
             THEN Result("currency",
                         Cat3(Txt(<<"uff08">>), toFixed(Mul(num, RateCNYUSD), 4), Txt(<<" ", "u7f8e", "u5143", "uff09">>)))
             ELSE Null
    ELSE Null

-----------------------------------------------------------------------------
(* handleFormulaQuery *)

handleFormulaQuery(input) ==
    IF input \in Keys(formulaDatabase)
    THEN Result("formula", Txt(Lookup(formulaDatabase, input)))
    ELSE Null

-----------------------------------------------------------------------------
(* process *)

\* rule.handler(match, cleanInput) at the instant t
Handle(category, input, t) ==
    CASE category = "math"     -> handleMathCalculation(input)
      [] category = "date"     -> handleDateCalculation(input, t)
      [] category = "timezone" -> handleTimezoneQuery(input, t)
      [] category = "unit"     -> handleUnitConversion(input)
      [] category = "currency" -> handleCurrencyConversion(input)
      [] category = "formula"  -> handleFormulaQuery(input)

\* if (result): an object is truthy, null is not
IsResult(r) == r.type \notin {"null", "throw"}

\* the handler of candidate c returned r: return it, and try nothing more
FoundResult(c, r) ==
    [ret |-> r, invoked |-> <<c>>, threw |-> <<>>, escaped |-> FALSE]

\* the handler of candidate c returned null: the loops go on (rest)
AfterNull(c, rest) ==
    [ret |-> rest.ret, invoked |-> <<c>> \o rest.invoked,
     threw |-> rest.threw, escaped |-> rest.escaped]

\* mutant of AfterFault: no try around the handler call, the fault leaves
\* process
AfterFaultRethrown(c, rest) ==
    [ret |-> Thrown, invoked |-> <<c>>, threw |-> <<c>>, escaped |-> TRUE]

\* the handler of candidate c threw: the catch block logs the error and
\* the loops go on (rest)
AfterFault(c, rest) ==
    [ret |-> rest.ret, invoked |-> <<c>> \o rest.invoked,
     threw |-> <<c>> \o rest.threw, escaped |-> rest.escaped]

\* the loops ended: return null
NoMatch == [ret |-> Null, invoked |-> <<>>, threw |-> <<>>, escaped |-> FALSE]

RECURSIVE ScanLastWins(_, _, _, _)
\* mutant of Scan: the loops do not return at the first Result, and the
\* last one wins
ScanLastWins(input, t, i, j) ==
    IF i > Len(rules) THEN NoMatch
    ELSE IF j > Len(rules[i].patterns) THEN ScanLastWins(input, t, i + 1, 1)
    ELSE IF ~Matches(rules[i].patterns[j], input) THEN ScanLastWins(input, t, i, j + 1)
    ELSE LET r == Handle(rules[i].category, input, t)
             rest == ScanLastWins(input, t, i, j + 1)
         IN  IF IsResult(r)
             THEN [ret |-> IF IsResult(rest.ret) THEN rest.ret ELSE r,
                   invoked |-> <<<<i, j>>>> \o rest.invoked,
                   threw |-> rest.threw, escaped |-> rest.escaped]
             ELSE IF r = Thrown THEN AfterFault(<<i, j>>, rest)
             ELSE AfterNull(<<i, j>>, rest)

RECURSIVE Scan(_, _, _, _)
\* the two loops of process, from pattern j of rule i on
Scan(input, t, i, j) ==
    IF i > Len(rules) THEN NoMatch
    ELSE IF j > Len(rules[i].patterns) THEN Scan(input, t, i + 1, 1)
    ELSE IF ~Matches(rules[i].patterns[j], input) THEN Scan(input, t, i, j + 1)
    ELSE LET r == Handle(rules[i].category, input, t)
         IN  IF IsResult(r) THEN FoundResult(<<i, j>>, r)
             ELSE IF r = Thrown THEN AfterFault(<<i, j>>, Scan(input, t, i, j + 1))
             ELSE AfterNull(<<i, j>>, Scan(input, t, i, j + 1))

\* Map.prototype.set
MapSet(m, key, val) == {e \in m : e[1] # key} \cup {<<key, val>>}

\* mutant of CacheHas: the cache is never consulted
CacheNeverHas(key) == FALSE

\* this.cache.has(cleanInput)
CacheHas(key) == key \in Keys(cache)

\* mutant of CacheAfter: the outcome is stored whatever it is, null too
CacheAfterAlways(key, s) == MapSet(cache, key, s.ret)

\* what process stores for a scan that ended with s
CacheAfter(key, s) ==
    IF IsResult(s.ret) THEN MapSet(cache, key, s.ret) ELSE cache

\* one call of process(input): the engine's part of the next state
Process(input) ==
    LET cleanInput == preprocessInput(input)
    IN  /\ calls' = calls + 1
        /\ raw' = input
        /\ clean' = cleanInput
        /\ calledAt' = now
        /\ now' = now
        /\ IF CacheHas(cleanInput)
           THEN /\ ret' = Lookup(cache, cleanInput)
                /\ hit' = TRUE
                /\ invoked' = <<>>
                /\ threw' = <<>>
                /\ escaped' = FALSE
                /\ cache' = cache
                /\ history' = history
           ELSE LET s == Scan(cleanInput, now, 1, 1)
                IN  /\ ret' = s.ret
                    /\ hit' = FALSE
                    /\ invoked' = s.invoked
                    /\ threw' = s.threw
                    /\ escaped' = s.escaped
                    /\ cache' = CacheAfter(cleanInput, s)
                    /\ history' = IF IsResult(s.ret)
                                  THEN history \cup {<<cleanInput, s.ret>>}
                                  ELSE history

\* formatOutput
formatOutput(result) == IF result = Null THEN <<>> ELSE result.result

-----------------------------------------------------------------------------
(* The shell: processUserInput *)

ToLower(c) ==
    CASE c = "A" -> "a" [] c = "B" -> "b" [] c = "C" -> "c" [] c = "D" -> "d"
      [] c = "E" -> "e" [] c = "F" -> "f" [] c = "G" -> "g" [] c = "H" -> "h"
      [] c = "I" -> "i" [] c = "J" -> "j" [] c = "K" -> "k" [] c = "L" -> "l"
      [] c = "M" -> "m" [] c = "N" -> "n" [] c = "O" -> "o" [] c = "P" -> "p"
      [] c = "Q" -> "q" [] c = "R" -> "r" [] c = "S" -> "s" [] c = "T" -> "t"
      [] c = "U" -> "u" [] c = "V" -> "v" [] c = "W" -> "w" [] c = "X" -> "x"
      [] c = "Y" -> "y" [] c = "Z" -> "z" [] OTHER -> c

toLowerCase(s) == [i \in 1..Len(s) |-> ToLower(s[i])]

\* the words the switch of processUserInput takes for itself
Commands ==
    { <<"h", "e", "l", "p">>, <<"h">>, <<"c", "l", "e", "a", "r">>, <<"c", "l", "s">>, <<"e", "x", "a", "m", "p", "l", "e", "s">>, <<"e", "x", "a", "m", "p", "l", "e">>, <<"e", "x", "i", "t">>, <<"q", "u", "i", "t">>, <<"q">>, <<>> }

\* const examples of showExamples
showExamples ==
    { <<"1", "+", "1">>, <<"2", "5", "*", "4">>, <<"1", "0", "0", "u7684", "u5e73", "u65b9", "u6839">>, <<"3", "u5929", "u540e">>, <<"u660e", "u5929">>, <<"u4e0b", "u5468">>,
      <<"u7ebd", "u7ea6", "u65f6", "u95f4">>, <<"u4e1c", "u4eac", "u65f6", "u95f4">>, <<"u4f26", "u6566", "u65f6", "u95f4">>, <<"3", "7", "u6444", "u6c0f", "u5ea6", "u7b49", "u4e8e">>, <<"1", "0", "0", "u7c73">>, <<"5", "0", "u82f1", "u5c3a">>,
      <<"1", "u7f8e", "u5143">>, <<"1", "0", "0", "u4eba", "u6c11", "u5e01">>, <<"5", "0", "u6b27", "u5143">>, <<"u725b", "u987f", "u7b2c", "u4e8c", "u5b9a", "u5f8b">>, <<"u52fe", "u80a1", "u5b9a", "u7406">>, <<"u6b27", "u59c6", "u5b9a", "u5f8b">> }

Printed(kind, text) == [kind |-> kind, text |-> text]

NothingPrinted == Printed("none", <<>>)

\* the lines processUserInput prints after process returned result, or
\* after it threw
PrintOutcome(trimmedInput, result, fault) ==
    IF fault THEN Printed("error", <<>>)
    ELSE IF result # Null
    THEN Printed("result", Cat(Txt(trimmedInput), formatOutput(result)))
    ELSE Printed("unsupported", <<>>)

\* processUserInput(line) for a line that is no command
ProcessUserInput(line) ==
    LET trimmedInput == Trim(line)
    IN  /\ toLowerCase(trimmedInput) \notin Commands
        /\ Process(trimmedInput)
        /\ printed' = PrintOutcome(trimmedInput, ret', escaped')

\* processUserInput(line) for help, clear, examples and the empty line
\* (exit and quit end the session)
ShellCommand(line) ==
    /\ toLowerCase(Trim(line)) \in Commands \ {<<"e", "x", "i", "t">>, <<"q", "u", "i", "t">>, <<"q">>}
    /\ printed' = Printed("command", Txt(toLowerCase(Trim(line))))
    /\ UNCHANGED <<cache, now, calls, raw, clean, ret, hit, invoked, threw,
                   escaped, calledAt, history>>

\* smartCompletion.process(input), called directly on the exported engine
ProcessCall(input) ==
    /\ Process(input)
    /\ printed' = NothingPrinted

\* the wall clock passes a minute
Tick ==
    /\ now < MaxClock
    /\ now' = now + 1
    /\ UNCHANGED <<cache, calls, raw, clean, ret, hit, invoked, threw,
                   escaped, calledAt, history, printed>>

-----------------------------------------------------------------------------
(* The inputs of the model *)

\* numeric literals: 0 .. MaxNum, longer integers, decimals
Literals ==
    {NatToStr(n) : n \in 0..MaxNum} \cup {<<"1", "0">>, <<"1", "0", "0">>, <<"0", ".", "5">>, <<"2", ".", "2", "5">>, <<"0", ".", "0">>}

Spacing == {<<>>, <<" ">>}

ArithmeticQueries ==
    { a \o sp \o op \o sp \o b :
        a \in Literals, b \in Literals, sp \in Spacing,
        op \in {<<"+">>, <<"-">>, <<"*">>, <<"/">>, <<"u52a0">>, <<"u51cf">>, <<"u4e58">>, <<"u9664">>} }

RootQueries ==
    { a \o s1 \o <<"u7684">> \o s2 \o root :
        a \in Literals, s1 \in Spacing, s2 \in Spacing,
        root \in {<<"u5e73", "u65b9", "u6839">>, <<"u7acb", "u65b9", "u6839">>} }

DateQueries ==
    { NatToStr(n) \o unit \o dir :
        n \in 0..MaxNum, unit \in {<<"u5929">>, <<"u65e5">>, <<"u5468">>, <<"u6708">>, <<"u5e74">>}, dir \in {<<"u540e">>, <<"u524d">>} }
    \cup {<<"u4eca", "u5929">>, <<"u660e", "u5929">>, <<"u540e", "u5929">>, <<"u6628", "u5929">>, <<"u524d", "u5929">>, <<"u4e0b", "u5468">>, <<"u4e0a", "u5468">>}

TimezoneQueries ==
    { city \o sp \o <<"u65f6", "u95f4">> :
        city \in Keys(timezoneMap) \cup {<<"u5317", "u4eac">>, <<"t", "o", "k", "y", "o">>, <<"c", "o", "n", "s", "t", "r", "u", "c", "t", "o", "r">>, <<"t", "o", "S", "t", "r", "i", "n", "g">>},
        sp \in Spacing }
    \cup {<<"3", "u70b9", "u7ebd", "u7ea6", "u65f6", "u95f4">>, <<"3", ":", "3", "0", "u70b9", "u4e1c", "u4eac">>, <<"1", "2", ".", "3", "0", "u65f6", "u4f26", "u6566", " ", "u65f6", "u95f4">>}

UnitQueries ==
    { a \o unit \o suffix :
        a \in Literals \cup {<<"3", "7">>}, unit \in TemperatureUnits \cup LengthUnits,
        suffix \in {<<>>, <<"u7b49", "u4e8e">>, <<"u8f6c", "u6362", "u4e3a">>} }

CurrencyQueries ==
    { a \o cur \o suffix :
        a \in Literals, cur \in CurrencyNames, suffix \in {<<>>, <<"u7b49", "u4e8e">>, <<"u6362", "u7b97", "u6210">>} }
    \cup { a \o sp \o cur : a \in Literals, sp \in Spacing, cur \in CurrencyCodes }

FormulaQueries == Keys(formulaDatabase) \cup {<<"u725b", "u987f", "u7b2c", "u56db", "u5b9a", "u5f8b">>, <<"v", "a", "l", "u", "e", "O", "f">>}

RawAlphabet == {"1", "+", " ", "\t", "uff0c"}

RECURSIVE StringsUpTo(_)
\* the strings over RawAlphabet of length up to n
StringsUpTo(n) ==
    IF n = 0 THEN {<<>>}
    ELSE LET shorter == StringsUpTo(n - 1)
         IN  shorter \cup { <<c>> \o s : c \in RawAlphabet, s \in {x \in shorter : Len(x) = n - 1} }

\* a query as a user may type it: padded, with punctuation
Decorated(queries) ==
    { pre \o q \o post :
        q \in queries, pre \in {<<>>, <<" ", " ">>},
        post \in {<<>>, <<"u3002">>, <<" ", "uff01">>, <<"uff1f", " ">>} }

ShellWords == {<<"h", "e", "l", "p">>, <<" ", "H", "e", "l", "p", " ">>, <<"E", "X", "A", "M", "P", "L", "E", "S">>, <<"c", "l", "e", "a", "r">>, <<"e", "x", "i", "t">>, <<"q">>}

AllInputs ==
    ArithmeticQueries \cup RootQueries \cup DateQueries \cup TimezoneQueries
    \cup UnitQueries \cup CurrencyQueries \cup FormulaQueries
    \cup StringsUpTo(MaxRawLen) \cup Decorated(showExamples) \cup ShellWords
    \cup {<<"h", "e", "l", "l", "o", " ", "w", "o", "r", "l", "d", " ", "1", "2", "3">>, <<"u660e", "u5929", " ", "u3002">>, <<"1", " ", "uff0c", "+", " ", "1">>, <<"5", "u9664", "0">>, <<"5", "/", "0">>}

\* the inputs of a session of several calls
SessionInputs ==
    { <<"u7ebd", "u7ea6", "u65f6", "u95f4">>, <<" ", "u7ebd", "u7ea6", "u65f6", "u95f4", "u3002">>, <<"c", "o", "n", "s", "t", "r", "u", "c", "t", "o", "r", "u65f6", "u95f4">>, <<"1", "+", "1">>, <<"u4e0b", "u5468">>, <<"u660e", "u5929">>, <<"e", "x", "a", "m", "p", "l", "e", "s">> }

-----------------------------------------------------------------------------
(* The state machine *)

Init ==
    /\ cache = {}
    /\ now = 0
    /\ calls = 0
    /\ raw = <<>>
    /\ clean = <<>>
    /\ ret = Null
    /\ hit = FALSE
    /\ invoked = <<>>
    /\ threw = <<>>
    /\ escaped = FALSE
    /\ calledAt = 0
    /\ history = {}
    /\ printed = NothingPrinted

\* a session: the shell reads lines one after the other, each processed to
\* its end before the next is read, while the clock advances
Next ==
    \/ \E line \in SessionInputs : calls < MaxCalls /\ ProcessUserInput(line)
    \/ \E line \in SessionInputs : ShellCommand(line)
    \/ Tick

Spec == Init /\ [][Next]_vars

\* one call on a fresh engine, over all the inputs of the model
NextFirstCall ==
    \/ \E input \in AllInputs : calls = 0 /\ ProcessCall(input)
    \/ \E line \in AllInputs : calls = 0 /\ ProcessUserInput(line)

SpecFirstCall == Init /\ [][NextFirstCall]_vars

-----------------------------------------------------------------------------
(* Properties *)

\* the candidates (rule, pattern) of the rule table
Candidates ==
    UNION { { <<i, j>> : j \in 1..Len(rules[i].patterns) } : i \in 1..Len(rules) }

\* c comes before d in declared order
Before(c, d) == c[1] < d[1] \/ (c[1] = d[1] /\ c[2] < d[2])

PatternMatches(c, input) == Matches(rules[c[1]].patterns[c[2]], input)

\* the pattern of c matches the whole input and its handler gives a Result
Yields(c, input, t) ==
    /\ PatternMatches(c, input)
    /\ IsResult(Handle(rules[c[1]].category, input, t))

Winners(input, t) == {c \in Candidates : Yields(c, input, t)}

First(W) == CHOOSE c \in W : \A d \in W : d = c \/ Before(c, d)

\* the last call found nothing cached and ran the loops
Dispatched == calls > 0 /\ ~hit

\* C1: a call on an input that is not cached returns the Result of the first
\* candidate, in rule order and then pattern order, whose pattern matches and
\* whose handler gives a Result; it invokes no handler of a later candidate;
\* and it returns null exactly when no candidate gives a Result.
C1_FirstMatchWins ==
    Dispatched =>
        LET W == Winners(clean, calledAt)
        IN  /\ (ret = Null) <=> (W = {})
            /\ W # {} =>
                /\ ret = Handle(rules[First(W)[1]].category, clean, calledAt)
                /\ invoked # <<>>
                /\ invoked[Len(invoked)] = First(W)
                /\ \A k \in 1..Len(invoked) : ~Before(First(W), invoked[k])

\* C1 witness: two candidates give a Result and only the first was invoked
C1_Witness ==
    /\ Dispatched
    /\ Cardinality(Winners(clean, calledAt)) >= 2
    /\ Len(invoked) = 1
    /\ ret # Null

DeterministicTypes == {"calculation", "conversion", "currency", "formula"}

\* C2: a call whose normalized input is in the cache returns the cached
\* Result and invokes no handler; and a call returns the very Result an
\* earlier call got for the same normalized input from a deterministic
\* handler (math, unit, currency, formula).
C2_CacheHitReturnsCached ==
    [][ calls' = calls + 1 =>
          /\ clean' \in Keys(cache) =>
                /\ ret' = Lookup(cache, clean')
                /\ invoked' = <<>>
          /\ \A e \in history :
                (e[1] = clean' /\ e[2].type \in DeterministicTypes) => ret' = e[2]
      ]_vars

\* C2 witness: a second call on a cached calculation
C2_Witness ==
    /\ hit
    /\ ret.type = "calculation"
    /\ invoked = <<>>
    /\ calls >= 2

\* the city of a query <city>时间 for a city of the timezone table
IsCityQuery(input) ==
    Matches(CityTime, input) /\ Groups(CityTime, input)[1] \in Keys(timezoneMap)

\* C3: every call on a timezone query for a city of the table returns the
\* time of that zone at the moment of the call, also when the same input
\* was processed before at another minute.
C3_TimeAtCallTime ==
    (calls > 0 /\ IsCityQuery(clean)) =>
        ret = Result("timezone",
                     TimeIn(Lookup(timezoneMap, Groups(CityTime, clean)[1]), calledAt))

\* the candidates whose pattern matches the input
Matching(input) == {c \in Candidates : PatternMatches(c, input)}

\* C4: a handler fault is caught and counts as a non-match: the call goes on
\* with the candidates that follow, stores nothing for the failed candidate,
\* and ends by returning a Result or null, never by throwing.
C4_FaultIsNonMatch ==
    calls > 0 =>
        /\ ~escaped
        /\ ret.type # "throw"
        /\ (~hit /\ threw # <<>>) =>
              LET W == Winners(clean, calledAt)
              IN  /\ \A k \in 1..Len(threw) : \E m \in 1..Len(invoked) : invoked[m] = threw[k]
                  /\ \A c \in Matching(clean) :
                        (W = {} \/ ~Before(First(W), c)) => \E m \in 1..Len(invoked) : invoked[m] = c
                  /\ W = {} => (ret = Null /\ clean \notin Keys(cache))
                  /\ W # {} => ret = Handle(rules[First(W)[1]].category, clean, calledAt)

\* C4 witness: a handler threw, and the call returned null
C4_Witness ==
    /\ calls > 0
    /\ threw # <<>>
    /\ ret = Null
    /\ ~escaped
    /\ clean \notin Keys(cache)

\* a/0 and a除0
IsDivisionByZero(input) ==
    Matches(<<NUM, WS, ALT({<<"/">>, <<"u9664">>}), WS, ALT({<<"0">>})>>, input)

\* C5 as stated: a/0 and a除0 give a calculation Result whose display string
\* is the notice itself.
C5_NoticeAlone ==
    (calls > 0 /\ IsDivisionByZero(clean)) =>
        ret = Result("calculation", Txt(<<"u9664", "u6570", "u4e0d", "u80fd", "u4e3a", "0">>))

\* C5 amended: a/0 and a除0 give a calculation Result whose display string is
\* the notice after the prefix every calculation carries; it is no number,
\* no Result of type error and no fault.
C5_NoticeAfterPrefix ==
    (calls > 0 /\ IsDivisionByZero(clean)) =>
        /\ ret = Result("calculation", Txt(<<"=", " ", "u9664", "u6570", "u4e0d", "u80fd", "u4e3a", "0">>))
        /\ threw = <<>>
        /\ ~escaped

\* C5 witness: a division by zero in the Chinese spelling was processed
C5_Witness ==
    /\ calls > 0
    /\ IsDivisionByZero(clean)
    /\ Includes(clean, <<"u9664">>)
    /\ ret.type = "calculation"

\* the exact value of a op b
ExactValue(op, a, b) ==
    CASE op = <<"+">> -> Rat(a.n * b.d + b.n * a.d, a.d * b.d)
      [] op = <<"-">> -> Rat(a.n * b.d - b.n * a.d, a.d * b.d)
      [] op = <<"*">> -> Rat(a.n * b.n, a.d * b.d)
      [] op = <<"/">> -> Rat(a.n * b.d, a.d * b.n)

C7_NormalForm ==
    calls > 0 =>
        /\ clean = <<>> \/ (clean[1] \notin Whitespace /\ clean[Len(clean)] \notin Whitespace)
        /\ \A i \in 1..(Len(clean) - 1) :
              ~(clean[i] \in Whitespace /\ clean[i + 1] \in Whitespace)
        /\ \A i \in 1..Len(clean) : clean[i] \notin Punctuation
        /\ preprocessInput(clean) = clean

\* C8: every example showExamples lists is resolved to a Result, and the
\* shell does not print the unsupported notice for it.
C8_ExamplesResolve ==
    (calls > 0 /\ raw \in showExamples) =>
        /\ ret # Null
        /\ printed.kind # "unsupported"

\* /^(\d+(?:\.\d+)?)\s*的\s*(平方根|立方根)$/ with the root named
IsRootQuery(input, root) == Matches(<<NUM, WS, ALT({<<"u7684">>}), WS, ALT({root})>>, input)

OperandOf(input) == parseFloat(Groups(<<NUM, ANY>>, input)[1])

\* C9: every input the root pattern accepts, with or without a space on
\* either side of 的, gives a calculation Result: the square root unrounded,
\* the cube root rounded to 4 decimals.
C9_RootsResolve ==
    calls > 0 =>
        /\ IsRootQuery(clean, <<"u5e73", "u65b9", "u6839">>) =>
              ret = Result("calculation", Cat(Txt(<<"=", " ">>), NumToStr(Root(2, OperandOf(clean)))))
        /\ IsRootQuery(clean, <<"u7acb", "u65b9", "u6839">>) =>
              ret = Result("calculation", Cat(Txt(<<"=", " ">>), toFixed(Root(3, OperandOf(clean)), 4)))

\* C10: the cache holds an entry for an input exactly when an earlier call
\* got a Result for it from a handler, and holds that Result; a null outcome
\* is never stored; and no call removes or replaces an entry.
C10_CacheIsHistory ==
    /\ [](/\ cache = history
          /\ \A e \in cache : IsResult(e[2])
          /\ \A e \in cache : \A f \in cache : e[1] = f[1] => e = f
          /\ (calls > 0 /\ ret = Null) => clean \notin Keys(cache))
    /\ [][\A e \in cache : e \in cache']_vars

\* C10 witness: the cache holds two entries, and the last call, which
\* returned null, added none
C10_Witness ==
    /\ Cardinality(cache) >= 2
    /\ calls > Cardinality(cache)
    /\ ret = Null
    /\ ~hit

=============================================================================
